---- MODULE Spec2Model ----
(***************************************************************************)
(* Model of honey-css: tokenizeCss -> createCssTokenCursor -> parseCssNodes *)
(* -> stringifyCss.  A string is a sequence of one-character strings; the   *)
(* indices `index` (tokenizer) and `cursor` (token cursor) are 0-based as   *)
(* in the source.                                                           *)
(***************************************************************************)
EXTENDS Integers, Sequences, FiniteSets, TLC

VARIABLES
  child,      \* resolveCssSelector: the argument `selector`, the child
  parent,     \* resolveCssSelector: the argument `parent`
  input,      \* tokenizeCss: the source text being tokenized
  index,      \* tokenizeCss: `let index = 0`
  tokens,     \* tokenizeCss: `const tokens`, then the cursor's token list
  cursor,     \* createCssTokenCursor: `let index = 0`
  marked,     \* the caller's `const m = cursor.mark()`
  stack,      \* active parseCssNodes / parseCssBlock calls, innermost last
  ast,        \* body of the stylesheet node handled last
  first,      \* body of the stylesheet node of the first parse of a pipeline
  out,        \* result of the last stringifyCss call
  ret,        \* result of the last direct call of a method of the cursor
  threw,      \* message of the failed cursor.expect, <<>> when none failed
  pass,       \* 0: direct call, 1: first parse, 2: parse of stringifyCss' text
  pc,         \* position of the program
  last        \* the step taken last and the indices it started from

vars ==
  <<child, parent, input, index, tokens, cursor, marked, stack, ast, first, out, ret,
    threw, pass, pc, last>>

\* ---------------------------------------------------------------- bounds
MaxSrcLen == 3      \* length of the texts given to tokenizeCss alone
MaxLen == 3         \* length of the texts given to parseCss
MaxQuoteLen == 5    \* length of the texts of quotes given to parseCss
MaxTokens == 4      \* length of the token lists given to the parser loops
MaxCursorTokens == 2 \* length of the token lists of direct cursor calls
MaxAstNodes == 3    \* number of nodes of the stylesheets given to stringifyCss
MaxSplitLen == 3    \* length of the selector lists given to resolveCssSelector
MaxChildLen == 3    \* length of the selectors resolved against a parent
MaxParentLen == 2   \* length of the parents they are resolved against
MaxCommentLen == 5  \* length of the texts of comments and slashes given to tokenizeCss
MaxShapeLen == 5    \* length of the texts of rules and declarations given to parseCss

\* ------------------------------------------------------------ JS values
Undefined == <<"undefined">>
Null == <<[type |-> "null"]>>
NoChar == "undefined"
NoToken == [type |-> "undefined", value |-> <<>>]
Void == [void |-> TRUE]

\* ------------------------------------------------------- string helpers
Whitespace == {" ", "\t", "\n", "\r", "\f"}

RECURSIVE TrimStart(_)
TrimStart(s) ==
  IF s # <<>> /\ Head(s) \in Whitespace THEN TrimStart(Tail(s)) ELSE s

RECURSIVE TrimEnd(_)
TrimEnd(s) ==
  IF s # <<>> /\ s[Len(s)] \in Whitespace THEN TrimEnd(SubSeq(s, 1, Len(s) - 1)) ELSE s

Trim(s) == TrimEnd(TrimStart(s))

RECURSIVE Join(_)
Join(parts) == IF parts = <<>> THEN <<>> ELSE Head(parts) \o Join(Tail(parts))

Slice(s, from, to) == SubSeq(s, from + 1, to)

\* the sequences over `alphabet` of length n
StringsOf(alphabet, n) == [1..n -> alphabet]

\* ------------------------------------------------------------ tokenizer
isBoundaryChar_NoSlash(ch) == ch \in {"{", "}", ":", ";", "@", "(", "\"", "'"}

isBoundaryChar(ch) == ch \in {"{", "}", ":", ";", "@", "(", "\"", "'", "/"}

charEof(src, i) == i >= Len(src)

peekChar(src, i) == IF charEof(src, i) THEN NoChar ELSE src[i + 1]

peekNext(src, i) == IF i + 1 >= Len(src) THEN NoChar ELSE src[i + 2]

RECURSIVE skipWhitespace(_, _)
skipWhitespace(src, i) ==
  IF peekChar(src, i) = NoChar \/ peekChar(src, i) \notin Whitespace
  THEN i
  ELSE skipWhitespace(src, i + 1)

RECURSIVE skipLine(_, _)
skipLine(src, i) ==
  IF charEof(src, i) THEN i
  ELSE IF peekChar(src, i) = "\n" THEN i + 1
  ELSE skipLine(src, i + 1)

skipSingleLineComment_KeepNewline(src, i) ==
  IF peekChar(src, i) # "/" \/ peekNext(src, i) # "/"
  THEN [skipped |-> FALSE, index |-> i]
  ELSE [skipped |-> TRUE,
        index |-> IF skipLine(src, i + 2) > i + 2 /\ src[skipLine(src, i + 2)] = "\n"
                  THEN skipLine(src, i + 2) - 1 ELSE skipLine(src, i + 2)]

skipSingleLineComment(src, i) ==
  IF peekChar(src, i) # "/" \/ peekNext(src, i) # "/"
  THEN [skipped |-> FALSE, index |-> i]
  ELSE [skipped |-> TRUE, index |-> skipLine(src, i + 2)]

RECURSIVE skipBlock(_, _)
skipBlock(src, i) ==
  IF charEof(src, i) THEN i
  ELSE IF peekChar(src, i) = "*" /\ peekNext(src, i) = "/" THEN i + 2
  ELSE skipBlock(src, i + 1)

skipMultiLineComment(src, i) ==
  IF peekChar(src, i) # "/" \/ peekNext(src, i) # "*"
  THEN [skipped |-> FALSE, index |-> i]
  ELSE [skipped |-> TRUE, index |-> skipBlock(src, i + 2)]

RECURSIVE readStringLoop(_, _, _, _)
readStringLoop(src, i, quote, result) ==
  IF charEof(src, i) THEN [value |-> result, index |-> i]
  ELSE LET ch == peekChar(src, i) IN
    IF ch = "\\"
    THEN IF peekChar(src, i + 1) # NoChar
         THEN readStringLoop(src, i + 2, quote, result \o <<ch, peekChar(src, i + 1)>>)
         ELSE readStringLoop(src, i + 1, quote, Append(result, ch))
    ELSE IF ch = quote THEN [value |-> result, index |-> i + 1]
    ELSE readStringLoop(src, i + 1, quote, Append(result, ch))

readString_DoubleQuoteOnly(src, i) ==
  IF peekChar(src, i) = NoChar
  THEN [value |-> <<>>, index |-> i]
  ELSE readStringLoop(src, i + 1, "\"", <<>>)

readString(src, i) ==
  IF peekChar(src, i) = NoChar
  THEN [value |-> <<>>, index |-> i]
  ELSE readStringLoop(src, i + 1, peekChar(src, i), <<>>)

RECURSIVE readParamsLoop(_, _, _, _)
readParamsLoop(src, i, depth, result) ==
  IF charEof(src, i) THEN [value |-> result, index |-> i]
  ELSE LET ch == peekChar(src, i)
           d == IF ch = "(" THEN depth + 1 ELSE IF ch = ")" THEN depth - 1 ELSE depth
       IN IF d = 0
          THEN [value |-> Append(result, ch), index |-> i + 1]
          ELSE readParamsLoop(src, i + 1, d, Append(result, ch))

readParamsGroup(src, i) == readParamsLoop(src, i, 0, <<>>)

RECURSIVE readTextLoop(_, _, _)
readTextLoop(src, i, result) ==
  IF charEof(src, i) \/ isBoundaryChar(peekChar(src, i))
  THEN [value |-> Trim(result), index |-> i]
  ELSE readTextLoop(src, i + 1, Append(result, peekChar(src, i)))

readText(src, i) == readTextLoop(src, i, <<>>)

Token(type) == [type |-> type, value |-> <<>>]

ValueToken(type, value) == [type |-> type, value |-> value]

emit(toks, type, r) == [index |-> r.index, tokens |-> Append(toks, ValueToken(type, r.value))]

structural(toks, type, i) == [index |-> i + 1, tokens |-> Append(toks, Token(type))]

skipped(toks, i) == [index |-> i, tokens |-> toks]

textChunk_NoFallback(toks, r) ==
  IF r.value # <<>> THEN emit(toks, "text", r) ELSE skipped(toks, r.index)

\* `const value = readText()`: a text token, or the fallback `index++`
textChunk(toks, r) ==
  IF r.value # <<>> THEN emit(toks, "text", r) ELSE skipped(toks, r.index + 1)

\* One iteration of the main loop, entered with !isEof(): the index and
\* the token list at the end of the iteration.
tokenLoopBody(src, i0, toks) ==
  LET i == skipWhitespace(src, i0)
      ch == peekChar(src, i)
  IN IF charEof(src, i) THEN skipped(toks, i)
     ELSE IF skipSingleLineComment(src, i).skipped
       THEN skipped(toks, skipSingleLineComment(src, i).index)
     ELSE IF skipMultiLineComment(src, i).skipped
       THEN skipped(toks, skipMultiLineComment(src, i).index)
     ELSE IF ch = "{" THEN structural(toks, "braceOpen", i)
     ELSE IF ch = "}" THEN structural(toks, "braceClose", i)
     ELSE IF ch = ":" THEN structural(toks, "colon", i)
     ELSE IF ch = ";" THEN structural(toks, "semicolon", i)
     ELSE IF ch = "@" THEN structural(toks, "at", i)
     ELSE IF ch = "(" THEN emit(toks, "params", readParamsGroup(src, i))
     ELSE IF ch \in {"\"", "'"} THEN emit(toks, "string", readString(src, i))
     ELSE textChunk(toks, readText(src, i))

\* tokenizeCss(input): the main loop run to its end
RECURSIVE tokenizeCssLoop(_, _, _)

tokenizeCssFrom(src, r) == tokenizeCssLoop(src, r.index, r.tokens)

tokenizeCssLoop(src, i, toks) ==
  IF charEof(src, i) THEN toks
  ELSE tokenizeCssFrom(src, tokenLoopBody(src, i, toks))

tokenizeCss(src) == tokenizeCssLoop(src, 0, <<>>)

\* --------------------------------------------------------- token cursor
isEof(toks, i) == i >= Len(toks)

peek(toks, i) == IF isEof(toks, i) THEN NoToken ELSE toks[i + 1]

next(toks, i) ==
  IF isEof(toks, i)
  THEN [token |-> NoToken, index |-> i]
  ELSE [token |-> toks[i + 1], index |-> i + 1]

mark(toks, i) == i

reset_KeepIndex(toks, i, m) == i

reset(toks, i, m) == m

\* the template strings given to assert, as the sequence of their pieces
EofMessage(type) ==
  <<"[@react-hive/honey-css]: Expected \"", type, "\" but reached end of input.">>

MismatchMessage(type, actual) ==
  <<"[@react-hive/honey-css]: Expected \"", type, "\" but got \"", actual, "\".">>

expect_PeekFirst(toks, i, type) ==
  IF isEof(toks, i)
  THEN [token |-> NoToken, index |-> i, error |-> EofMessage(type)]
  ELSE IF toks[i + 1].type # type
  THEN [token |-> toks[i + 1], index |-> i, error |-> MismatchMessage(type, toks[i + 1].type)]
  ELSE [token |-> toks[i + 1], index |-> i + 1, error |-> <<>>]

expect_NoTypeAssert(toks, i, type) ==
  [token |-> next(toks, i).token,
   index |-> next(toks, i).index,
   error |-> IF next(toks, i).token = NoToken THEN EofMessage(type) ELSE <<>>]

expect(toks, i, type) ==
  LET n == next(toks, i)
  IN [token |-> n.token,
      index |-> n.index,
      error |-> IF n.token = NoToken THEN EofMessage(type)
                ELSE IF n.token.type # type THEN MismatchMessage(type, n.token.type)
                ELSE <<>>]

RECURSIVE readUntilLoop(_, _, _, _)
readUntilLoop(toks, i, stopTypes, result) ==
  LET token == peek(toks, i) IN
  IF isEof(toks, i) \/ token.type \in stopTypes
  THEN [value |-> Trim(result), index |-> i]
  ELSE IF token.type = "text"
    THEN readUntilLoop(toks, next(toks, i).index, stopTypes,
                       (IF result # <<>> THEN Append(result, " ") ELSE result) \o token.value)
  ELSE IF token.type = "string"
    THEN readUntilLoop(toks, next(toks, i).index, stopTypes,
                       result \o <<"\"">> \o token.value \o <<"\"">>)
  ELSE IF token.type = "params"
    THEN readUntilLoop(toks, next(toks, i).index, stopTypes, result \o token.value)
  ELSE readUntilLoop(toks, next(toks, i).index, stopTypes, result)

readUntil(toks, i, stopTypes) == readUntilLoop(toks, i, stopTypes, <<>>)

RECURSIVE skipUntil(_, _, _)
skipUntil(toks, i, stopTypes) ==
  IF isEof(toks, i) \/ peek(toks, i).type \in stopTypes
  THEN i
  ELSE skipUntil(toks, next(toks, i).index, stopTypes)

\* ------------------------------------------------------ selector reader
RECURSIVE readCssSelectorLoop(_, _, _)
readCssSelectorLoop(toks, i, parts) ==
  LET token == peek(toks, i) IN
  IF isEof(toks, i) THEN [value |-> Trim(Join(parts)), index |-> i]
  ELSE IF token.type \in {"braceOpen", "braceClose"}
    THEN [value |-> Trim(Join(parts)), index |-> i]
  ELSE IF token.type = "colon"
    THEN readCssSelectorLoop(toks, next(toks, i).index, Append(parts, <<":">>))
  ELSE IF token.type \in {"text", "params"}
    THEN readCssSelectorLoop(toks, next(toks, i).index, Append(parts, token.value))
  ELSE IF token.type = "string"
    THEN readCssSelectorLoop(toks, next(toks, i).index,
                             Append(parts, <<"\"">> \o token.value \o <<"\"">>))
  ELSE [value |-> Trim(Join(parts)), index |-> i]

readCssSelector(toks, i) == readCssSelectorLoop(toks, i, <<>>)

KeyStopTypes == {"colon", "braceOpen", "semicolon", "braceClose", "at"}

\* readCssKeyOrSelector after `candidate = readCssSelector(cursor)`, which
\* is also what the function returns when the first token is a colon
keyOrSelector_NoReset(toks, i, candidate) ==
  IF peek(toks, i) = NoToken THEN [value |-> <<>>, index |-> i]
  ELSE IF peek(toks, i).type = "colon" THEN candidate
  ELSE IF peek(toks, candidate.index).type = "braceOpen" THEN candidate
  ELSE readUntil(toks, candidate.index, KeyStopTypes)

keyOrSelector(toks, i, candidate) ==
  IF peek(toks, i) = NoToken THEN [value |-> <<>>, index |-> i]
  ELSE IF peek(toks, i).type = "colon" THEN candidate
  ELSE IF peek(toks, candidate.index).type = "braceOpen" THEN candidate
  ELSE readUntil(toks, reset(toks, candidate.index, mark(toks, i)), KeyStopTypes)

readCssKeyOrSelector(toks, i) == keyOrSelector(toks, i, readCssSelector(toks, i))

\* ---------------------------------------------------------- declaration
NoNode == Null[1]

Failed(i, error) == [block |-> FALSE, node |-> NoNode, index |-> i, error |-> error]

declarationNode_KeepSemicolon(toks, prop, v) ==
  [block |-> FALSE,
   node |-> [type |-> "declaration", prop |-> prop, value |-> v.value],
   index |-> v.index,
   error |-> <<>>]

declarationNode(toks, prop, v) ==
  [block |-> FALSE,
   node |-> [type |-> "declaration", prop |-> prop, value |-> v.value],
   index |-> IF peek(toks, v.index).type = "semicolon" THEN next(toks, v.index).index
             ELSE v.index,
   error |-> <<>>]

declarationAfterColon(toks, e, prop) ==
  IF e.error # <<>> THEN Failed(e.index, e.error)
  ELSE declarationNode(toks, prop, readUntil(toks, e.index, {"semicolon", "braceClose"}))

parseCssDeclaration(toks, i, prop) == declarationAfterColon(toks, expect(toks, i, "colon"), prop)

\* -------------------------------------------------------------- at-rule
HeaderSpace == {" ", "\t", "\n", "\r", "\f"}

RECURSIVE headerNameEnd(_, _)
headerNameEnd(normalized, i) ==
  IF i < Len(normalized) /\ normalized[i + 1] \notin (HeaderSpace \cup {"("})
  THEN headerNameEnd(normalized, i + 1)
  ELSE i

RECURSIVE headerSkipSpace(_, _)
headerSkipSpace(normalized, i) ==
  IF i < Len(normalized) /\ normalized[i + 1] \in HeaderSpace
  THEN headerSkipSpace(normalized, i + 1)
  ELSE i

headerParts(normalized, i, j) ==
  [name |-> Slice(normalized, 0, i),
   params |-> IF Slice(normalized, j, Len(normalized)) = <<>> THEN Undefined
              ELSE Slice(normalized, j, Len(normalized))]

headerSplit(normalized, i) == headerParts(normalized, i, headerSkipSpace(normalized, i))

headerOf(normalized) ==
  IF normalized = <<>>
  THEN [name |-> <<>>, params |-> Undefined]
  ELSE headerSplit(normalized, headerNameEnd(normalized, 0))

parseAtRuleHeader(header) == headerOf(Trim(header))

atRuleBody_EmptyArray(toks, j, name, params) ==
  [block |-> peek(toks, j).type = "braceOpen",
   node |-> [type |-> "atRule", name |-> name, params |-> params, body |-> <<>>],
   index |-> IF peek(toks, j).type = "semicolon" THEN next(toks, j).index ELSE j,
   error |-> <<>>]

\* parseCssAtRule from the block/directive test on: `block` tells that the
\* body is the result of parseCssBlock(cursor) called with the cursor at j
atRuleBody(toks, j, name, params) ==
  IF peek(toks, j).type = "braceOpen"
  THEN [block |-> TRUE,
        node |-> [type |-> "atRule", name |-> name, params |-> params, body |-> <<>>],
        index |-> j, error |-> <<>>]
  ELSE [block |-> FALSE,
        node |-> [type |-> "atRule", name |-> name, params |-> params, body |-> Null],
        index |-> IF peek(toks, j).type = "semicolon" THEN next(toks, j).index ELSE j,
        error |-> <<>>]

atRuleMerged(toks, header, p) ==
  IF p.error # <<>> THEN Failed(p.index, p.error)
  ELSE atRuleBody(toks, p.index, header.name,
                  IF header.params # Undefined THEN header.params \o p.token.value
                  ELSE p.token.value)

atRuleMerge_NoPeek(toks, j, header) ==
  atRuleMerged(toks, header, expect(toks, j, "params"))

\* `if (cursor.peek()?.type === 'params')`: the trailing params token
atRuleMerge(toks, j, header) ==
  IF peek(toks, j).type = "params"
  THEN atRuleMerged(toks, header, expect(toks, j, "params"))
  ELSE atRuleBody(toks, j, header.name, header.params)

atRuleHeader(toks, headerSource) ==
  atRuleMerge(toks, headerSource.index, parseAtRuleHeader(headerSource.value))

atRuleAfterAt(toks, e) ==
  IF e.error # <<>> THEN Failed(e.index, e.error)
  ELSE atRuleHeader(toks, readUntil(toks, e.index, {"semicolon", "braceOpen"}))

parseCssAtRule(toks, i) == atRuleAfterAt(toks, expect(toks, i, "at"))

\* ----------------------------------------------------------------- rule
ruleAfterBrace(e, selector) ==
  [block |-> TRUE,
   node |-> [type |-> "rule", selector |-> selector, body |-> <<>>],
   index |-> e.index, error |-> e.error]

\* parseCssRule up to its call of parseCssBlock(cursor)
parseCssRule(toks, i, selector) == ruleAfterBrace(expect(toks, i, "braceOpen"), selector)

\* ------------------------------------------------------------ node loops
Outcome(op, r) == [op |-> op, index |-> r.index, node |-> r.node, error |-> r.error]

Consumed(op, n) == [op |-> op, index |-> n.index, node |-> NoNode, error |-> <<>>]

atRuleOutcome(r) == Outcome(IF r.block THEN "atRuleBlock" ELSE "atRule", r)

nodesRecover_NoNext(toks, j) == Consumed("recover", [index |-> j])

\* `if (!keyOrSelector) { cursor.next(); continue; }`
nodesRecover(toks, j) == Consumed("recover", next(toks, j))

nodesDispatch_NoRecover(toks, i, stopAtBraceClose, keyOrSel) ==
  IF stopAtBraceClose /\ peek(toks, i).type = "braceClose"
    THEN Consumed("break", next(toks, i))
  ELSE IF peek(toks, i).type = "semicolon"
    THEN Consumed("semicolon", next(toks, i))
  ELSE IF peek(toks, i).type = "at"
    THEN atRuleOutcome(parseCssAtRule(toks, i))
  ELSE IF peek(toks, keyOrSel.index).type = "colon"
    THEN Outcome("declaration", parseCssDeclaration(toks, keyOrSel.index, keyOrSel.value))
  ELSE IF peek(toks, keyOrSel.index).type = "braceOpen"
    THEN Outcome("rule", parseCssRule(toks, keyOrSel.index, keyOrSel.value))
  ELSE Consumed("skip", next(toks, keyOrSel.index))

nodesDispatch_AlwaysStop(toks, i, stopAtBraceClose, keyOrSel) ==
  IF peek(toks, i).type = "braceClose"
    THEN Consumed("break", next(toks, i))
  ELSE IF peek(toks, i).type = "semicolon"
    THEN Consumed("semicolon", next(toks, i))
  ELSE IF peek(toks, i).type = "at"
    THEN atRuleOutcome(parseCssAtRule(toks, i))
  ELSE IF keyOrSel.value = <<>>
    THEN nodesRecover(toks, keyOrSel.index)
  ELSE IF peek(toks, keyOrSel.index).type = "colon"
    THEN Outcome("declaration", parseCssDeclaration(toks, keyOrSel.index, keyOrSel.value))
  ELSE IF peek(toks, keyOrSel.index).type = "braceOpen"
    THEN Outcome("rule", parseCssRule(toks, keyOrSel.index, keyOrSel.value))
  ELSE Consumed("skip", next(toks, keyOrSel.index))

nodesDispatch(toks, i, stopAtBraceClose, keyOrSel) ==
  IF stopAtBraceClose /\ peek(toks, i).type = "braceClose"
    THEN Consumed("break", next(toks, i))
  ELSE IF peek(toks, i).type = "semicolon"
    THEN Consumed("semicolon", next(toks, i))
  ELSE IF peek(toks, i).type = "at"
    THEN atRuleOutcome(parseCssAtRule(toks, i))
  ELSE IF keyOrSel.value = <<>>
    THEN nodesRecover(toks, keyOrSel.index)
  ELSE IF peek(toks, keyOrSel.index).type = "colon"
    THEN Outcome("declaration", parseCssDeclaration(toks, keyOrSel.index, keyOrSel.value))
  ELSE IF peek(toks, keyOrSel.index).type = "braceOpen"
    THEN Outcome("rule", parseCssRule(toks, keyOrSel.index, keyOrSel.value))
  ELSE Consumed("skip", next(toks, keyOrSel.index))

\* One iteration of the loop of parseCssNodes, entered with !cursor.isEof().
\* For "rule" and "atRuleBlock" the outcome is the state at the call of
\* parseCssBlock, whose result becomes the body of `node`.
parseCssNodesBody(toks, i, stopAtBraceClose) ==
  nodesDispatch(toks, i, stopAtBraceClose, readCssKeyOrSelector(toks, i))

blockRecover_SkipTwo(toks, j) == Consumed("recover", next(toks, next(toks, j).index))

\* `if (!selectorOrProp) { cursor.next(); continue; }`
blockRecover(toks, j) == Consumed("recover", next(toks, j))

blockDispatch_KeepBrace(toks, i, selectorOrProp) ==
  IF peek(toks, i).type = "braceClose"
    THEN Consumed("break", [index |-> i])
  ELSE IF peek(toks, i).type = "semicolon"
    THEN Consumed("semicolon", next(toks, i))
  ELSE IF peek(toks, i).type = "at"
    THEN atRuleOutcome(parseCssAtRule(toks, i))
  ELSE IF selectorOrProp.value = <<>>
    THEN blockRecover(toks, selectorOrProp.index)
  ELSE IF peek(toks, selectorOrProp.index).type = "colon"
    THEN Outcome("declaration",
                 parseCssDeclaration(toks, selectorOrProp.index, selectorOrProp.value))
  ELSE IF peek(toks, selectorOrProp.index).type = "braceOpen"
    THEN Outcome("rule", parseCssRule(toks, selectorOrProp.index, selectorOrProp.value))
  ELSE Consumed("skip", next(toks, selectorOrProp.index))

blockDispatch(toks, i, selectorOrProp) ==
  IF peek(toks, i).type = "braceClose"
    THEN Consumed("break", next(toks, i))
  ELSE IF peek(toks, i).type = "semicolon"
    THEN Consumed("semicolon", next(toks, i))
  ELSE IF peek(toks, i).type = "at"
    THEN atRuleOutcome(parseCssAtRule(toks, i))
  ELSE IF selectorOrProp.value = <<>>
    THEN blockRecover(toks, selectorOrProp.index)
  ELSE IF peek(toks, selectorOrProp.index).type = "colon"
    THEN Outcome("declaration",
                 parseCssDeclaration(toks, selectorOrProp.index, selectorOrProp.value))
  ELSE IF peek(toks, selectorOrProp.index).type = "braceOpen"
    THEN Outcome("rule", parseCssRule(toks, selectorOrProp.index, selectorOrProp.value))
  ELSE Consumed("skip", next(toks, selectorOrProp.index))

\* One iteration of the loop of parseCssBlock, entered with !cursor.isEof().
parseCssBlockBody(toks, i) == blockDispatch(toks, i, readCssKeyOrSelector(toks, i))

\* ---------------------------------------------------------- stringifier
stringifyDeclaration(node) ==
  LET value == Trim(node.value)
  IN IF value = <<>> THEN <<>> ELSE node.prop \o <<":">> \o value \o <<";">>

RECURSIVE stringifyNode(_)
RECURSIVE stringifyBody(_)

stringifyRule_KeepEmpty(node) ==
  node.selector \o <<"{">> \o stringifyBody(node.body) \o <<"}">>

stringifyRule(node) ==
  LET body == stringifyBody(node.body)
  IN IF body = <<>> THEN <<>> ELSE node.selector \o <<"{">> \o body \o <<"}">>

stringifyAtRule_PruneDirective(node) ==
  LET params == IF node.params # Undefined /\ node.params # <<>>
                THEN <<" ">> \o node.params ELSE <<>>
      body == IF node.body = Null THEN params ELSE stringifyBody(node.body)
  IN IF body = <<>> THEN <<>>
     ELSE IF node.body = Null THEN <<"@">> \o node.name \o params \o <<";">>
     ELSE <<"@">> \o node.name \o params \o <<"{">> \o body \o <<"}">>

stringifyAtRule(node) ==
  LET params == IF node.params # Undefined /\ node.params # <<>>
                THEN <<" ">> \o node.params ELSE <<>>
  IN IF node.body = Null
     THEN <<"@">> \o node.name \o params \o <<";">>
     ELSE LET body == stringifyBody(node.body)
          IN IF body = <<>> THEN <<>>
             ELSE <<"@">> \o node.name \o params \o <<"{">> \o body \o <<"}">>

stringifyNode(node) ==
  IF node.type = "declaration" THEN stringifyDeclaration(node)
  ELSE IF node.type = "rule" THEN stringifyRule(node)
  ELSE IF node.type = "atRule" THEN stringifyAtRule(node)
  ELSE <<>>

\* body.map(stringifyNode).join('')
stringifyBody(body) ==
  IF body = <<>> THEN <<>> ELSE stringifyNode(Head(body)) \o stringifyBody(Tail(body))

RECURSIVE stringifyCssLoop(_)
stringifyCssLoop(body) ==
  IF body = <<>> THEN <<>>
  ELSE (IF stringifyNode(Head(body)) # <<>> THEN stringifyNode(Head(body)) ELSE <<>>)
       \o stringifyCssLoop(Tail(body))

stringifyCss(node) == stringifyCssLoop(node.body)

\* ------------------------------------------------------ selector resolver
NoQuote == "null"

\* the local variables of forEachTopLevelSelector, and the parts handed to
\* the callback so far
ScanStart ==
  [start |-> 0, parenDepth |-> 0, bracketDepth |-> 0, currentQuote |-> NoQuote,
   isEscapeSeq |-> FALSE, parts |-> <<>>]

\* `if (part) { callback(part); }`
callback(parts, part) == IF part # <<>> THEN Append(parts, part) ELSE parts

topLevelStep_NoBrackets(sel, i, st) ==
  IF st.isEscapeSeq THEN [st EXCEPT !.isEscapeSeq = FALSE]
  ELSE IF sel[i + 1] = "\\" THEN [st EXCEPT !.isEscapeSeq = TRUE]
  ELSE IF st.currentQuote # NoQuote
    THEN IF sel[i + 1] = st.currentQuote THEN [st EXCEPT !.currentQuote = NoQuote] ELSE st
  ELSE IF sel[i + 1] \in {"\"", "'"} THEN [st EXCEPT !.currentQuote = sel[i + 1]]
  ELSE IF sel[i + 1] = "(" THEN [st EXCEPT !.parenDepth = @ + 1]
  ELSE IF sel[i + 1] = ")" THEN [st EXCEPT !.parenDepth = @ - 1]
  ELSE IF sel[i + 1] = "," /\ st.parenDepth = 0
    THEN [st EXCEPT !.parts = callback(@, Trim(Slice(sel, st.start, i))), !.start = i + 1]
  ELSE st

\* one iteration of the loop of forEachTopLevelSelector
topLevelStep(sel, i, st) ==
  IF st.isEscapeSeq THEN [st EXCEPT !.isEscapeSeq = FALSE]
  ELSE IF sel[i + 1] = "\\" THEN [st EXCEPT !.isEscapeSeq = TRUE]
  ELSE IF st.currentQuote # NoQuote
    THEN IF sel[i + 1] = st.currentQuote THEN [st EXCEPT !.currentQuote = NoQuote] ELSE st
  ELSE IF sel[i + 1] \in {"\"", "'"} THEN [st EXCEPT !.currentQuote = sel[i + 1]]
  ELSE IF sel[i + 1] = "(" THEN [st EXCEPT !.parenDepth = @ + 1]
  ELSE IF sel[i + 1] = ")" THEN [st EXCEPT !.parenDepth = @ - 1]
  ELSE IF sel[i + 1] = "[" THEN [st EXCEPT !.bracketDepth = @ + 1]
  ELSE IF sel[i + 1] = "]" THEN [st EXCEPT !.bracketDepth = @ - 1]
  ELSE IF sel[i + 1] = "," /\ st.parenDepth = 0 /\ st.bracketDepth = 0
    THEN [st EXCEPT !.parts = callback(@, Trim(Slice(sel, st.start, i))), !.start = i + 1]
  ELSE st

RECURSIVE topLevelLoop(_, _, _)
topLevelLoop(sel, i, st) ==
  IF i < Len(sel) THEN topLevelLoop(sel, i + 1, topLevelStep(sel, i, st)) ELSE st

topLevelLast(sel, st) == callback(st.parts, Trim(Slice(sel, st.start, Len(sel))))

\* the parts that forEachTopLevelSelector(sel, callback) hands to its
\* callback, in the order of the calls
forEachTopLevelSelector(sel) == topLevelLast(sel, topLevelLoop(sel, 0, ScanStart))

\* s.includes(ch), s.indexOf(ch) !== -1
includes(s, ch) == \E k \in 1..Len(s) : s[k] = ch

\* the character U+0060 (grave accent), which no string of this module can
\* hold
Grave == "U+0060"

\* GetSubstitution of `replaceValue` for the match `&` found at `position`
\* of str: `$` followed by `$`, `&`, U+0060 or `'` is a pattern; there is no
\* capture group, so that `$` followed by anything else stands for itself
RECURSIVE getSubstitution(_, _, _, _)
getSubstitution(str, position, replaceValue, k) ==
  IF k > Len(replaceValue) THEN <<>>
  ELSE IF replaceValue[k] = "$" /\ k < Len(replaceValue) /\ replaceValue[k + 1] = "$"
    THEN <<"$">> \o getSubstitution(str, position, replaceValue, k + 2)
  ELSE IF replaceValue[k] = "$" /\ k < Len(replaceValue) /\ replaceValue[k + 1] = "&"
    THEN <<"&">> \o getSubstitution(str, position, replaceValue, k + 2)
  ELSE IF replaceValue[k] = "$" /\ k < Len(replaceValue) /\ replaceValue[k + 1] = Grave
    THEN Slice(str, 0, position) \o getSubstitution(str, position, replaceValue, k + 2)
  ELSE IF replaceValue[k] = "$" /\ k < Len(replaceValue) /\ replaceValue[k + 1] = "'"
    THEN Slice(str, position + 1, Len(str))
           \o getSubstitution(str, position, replaceValue, k + 2)
  ELSE <<replaceValue[k]>> \o getSubstitution(str, position, replaceValue, k + 1)

RECURSIVE replaceAllFrom(_, _, _)
replaceAllFrom(str, position, replaceValue) ==
  IF position >= Len(str) THEN <<>>
  ELSE (IF str[position + 1] = "&" THEN getSubstitution(str, position, replaceValue, 1)
        ELSE <<str[position + 1]>>)
       \o replaceAllFrom(str, position + 1, replaceValue)

\* str.replaceAll('&', replaceValue)
replaceAll(str, replaceValue) == replaceAllFrom(str, 0, replaceValue)

\* the string pushed to `result` for one pair of parts
resolvePart(childPart, parentPart) ==
  IF includes(childPart, "&") THEN replaceAll(childPart, parentPart)
  ELSE parentPart \o <<" ">> \o childPart

\* the calls of the inner callback for one parent part
RECURSIVE forEachChild(_, _)
forEachChild(childParts, parentPart) ==
  IF childParts = <<>> THEN <<>>
  ELSE <<resolvePart(Head(childParts), parentPart)>> \o forEachChild(Tail(childParts), parentPart)

\* the calls of the outer callback
RECURSIVE forEachParent(_, _)
forEachParent(parentParts, childSelector) ==
  IF parentParts = <<>> THEN <<>>
  ELSE forEachChild(forEachTopLevelSelector(childSelector), Head(parentParts))
       \o forEachParent(Tail(parentParts), childSelector)

\* result.join(', ')
RECURSIVE joinResult(_)
joinResult(result) ==
  IF result = <<>> THEN <<>>
  ELSE IF Len(result) = 1 THEN Head(result)
  ELSE Head(result) \o <<",", " ">> \o joinResult(Tail(result))

Resolved(path, value) == [path |-> path, value |-> value]

\* the version of resolveCssSelector that has no fast path, after its trims
resolveExpanded(childSelector, parentSelector) ==
  IF childSelector = <<>> THEN Resolved("empty", <<>>)
  ELSE IF parentSelector = <<>> THEN Resolved("empty", childSelector)
  ELSE Resolved("general",
                joinResult(forEachParent(forEachTopLevelSelector(parentSelector),
                                         childSelector)))

resolveTrimmed_FastOnChildAlone(childSelector, parentSelector) ==
  IF childSelector = <<>> THEN Resolved("empty", <<>>)
  ELSE IF parentSelector = <<>> THEN Resolved("empty", childSelector)
  ELSE IF ~includes(childSelector, ",")
    THEN Resolved("fast", IF includes(childSelector, "&")
                          THEN replaceAll(childSelector, parentSelector)
                          ELSE parentSelector \o <<" ">> \o childSelector)
  ELSE Resolved("general",
                joinResult(forEachParent(forEachTopLevelSelector(parentSelector),
                                         childSelector)))

\* resolveCssSelector after the two trims
resolveTrimmed(childSelector, parentSelector) ==
  IF childSelector = <<>> THEN Resolved("empty", <<>>)
  ELSE IF parentSelector = <<>> THEN Resolved("empty", childSelector)
  ELSE IF ~includes(parentSelector, ",") /\ ~includes(childSelector, ",")
    THEN Resolved("fast", IF includes(childSelector, "&")
                          THEN replaceAll(childSelector, parentSelector)
                          ELSE parentSelector \o <<" ">> \o childSelector)
  ELSE Resolved("general",
                joinResult(forEachParent(forEachTopLevelSelector(parentSelector),
                                         childSelector)))

resolveCssSelector(sel, par) == resolveTrimmed(Trim(sel), Trim(par))

\* ------------------------------------------------------------ the inputs
\* the characters that forEachTopLevelSelector tells apart
SplitAlphabet == {"a", " ", ",", "&", "(", ")", "[", "]", "\"", "'", "\\"}

\* the selectors that a selector list is resolved with
Companions == {<<"p">>, <<"&">>, <<"p", ",", "q">>}

ChildAlphabet == {"c", "&", ",", " "}

\* the characters of a parent that replaceAll tells apart
ParentAlphabet == {"p", ",", "$", "&", "'", Grave}

\* the characters of comments, of a text around them and of a bare slash
CommentAlphabet == {"a", "b", " ", "\n", "/", "*"}

SrcAlphabet ==
  {"a", " ", "\n", "{", "}", ":", ";", "@", "(", ")", "\"", "'", "\\", "/", "*"}

Alphabet == {"a", " ", "{", "}", ":", ";", "@", "(", ")", "\"", "'", "/"}

QuoteAlphabet == {"a", ":", "\"", "'"}

\* the characters of rules and declarations, for nested and sibling nodes
ShapeAlphabet == {"a", " ", "{", "}", ":", ";"}

TokenPool ==
  {Token("braceOpen"), Token("braceClose"), Token("colon"), Token("semicolon"), Token("at"),
   ValueToken("text", <<"a">>), ValueToken("text", <<" ", "b">>),
   ValueToken("params", <<"(", "c", ")">>), ValueToken("string", <<"d">>)}

\* `@charset;`
CharsetSource ==
  <<"@", "c", "h", "a", "r", "s", "e", "t", ";">>

\* `@media (max-width:100px){}`
MediaSource ==
  <<"@", "m", "e", "d", "i", "a", " ", "(", "m", "a", "x", "-", "w", "i", "d", "t",
    "h", ":", "1", "0", "0", "p", "x", ")", "{", "}">>

\* `@scope (.card) to (.title) { padding: 8px; }`
ScopeSource ==
  <<"@", "s", "c", "o", "p", "e", " ", "(", ".", "c", "a", "r", "d", ")", " ", "t",
    "o", " ", "(", ".", "t", "i", "t", "l", "e", ")", " ", "{", " ", "p", "a", "d",
    "d", "i", "n", "g", ":", " ", "8", "p", "x", ";", " ", "}">>

\* `@charset "UTF-8";`
CharsetUtf8Source ==
  <<"@", "c", "h", "a", "r", "s", "e", "t", " ", "\"", "U", "T", "F", "-", "8", "\"",
    ";">>

\* `a:hover: 1;`
AHoverSource == <<"a", ":", "h", "o", "v", "e", "r", ":", " ", "1", ";">>

\* `color @media (min-width: 1px) {}`
ColorMediaSource ==
  <<"c", "o", "l", "o", "r", " ", "@", "m", "e", "d", "i", "a", " ", "(", "m", "i",
    "n", "-", "w", "i", "d", "t", "h", ":", " ", "1", "p", "x", ")", " ", "{", "}">>

\* `color: red}`
ColorRedSource == <<"c", "o", "l", "o", "r", ":", " ", "r", "e", "d", "}">>

\* the sources of the tests that call the readers on a cursor
CursorSources == {AHoverSource, ColorMediaSource, ColorRedSource}

\* the property names handed to parseCssDeclaration, which only stores them
Props == {"color", "padding"}

TestSources == {CharsetSource, MediaSource, ScopeSource, CharsetUtf8Source}

TokenTypes ==
  {"braceOpen", "braceClose", "colon", "semicolon", "at", "params", "string", "text"}

\* the stop lists the parser passes to readUntil, and the empty one
StopLists == {{"semicolon", "braceOpen"}, {"semicolon", "braceClose"}, KeyStopTypes, {}}

LeafNodes ==
  {[type |-> "declaration", prop |-> <<"a">>, value |-> v] :
     v \in {<<"b">>, <<" ">>, <<" ", "b", " ">>}}
    \cup {[type |-> "atRule", name |-> <<"a">>, params |-> p, body |-> Null] :
            p \in {Undefined, <<>>, <<"c">>}}
    \cup {[type |-> "stylesheet", body |-> <<>>]}

BlockNodes ==
  {[type |-> "rule", selector |-> sel, body |-> <<>>] : sel \in {<<"a">>, <<>>}}
    \cup {[type |-> "atRule", name |-> <<"a">>, params |-> p, body |-> <<>>] :
            p \in {Undefined, <<"c">>}}

\* ------------------------------------------------------------- the state
Frame(fn, stopAtBraceClose, node, from) ==
  [fn |-> fn, stopAtBraceClose |-> stopAtBraceClose, nodes |-> <<>>, node |-> node, from |-> from]

Stylesheet(body) == [type |-> "stylesheet", body |-> body]

Step(op, from, done, n) == [op |-> op, from |-> from, done |-> done, n |-> n]

StartWith(sel, par, src, toks, frames, nodes, pass0, pc0) ==
  /\ child = sel
  /\ parent = par
  /\ input = src
  /\ index = 0
  /\ tokens = toks
  /\ cursor = 0
  /\ marked = 0
  /\ stack = frames
  /\ ast = nodes
  /\ first = nodes
  /\ out = <<>>
  /\ ret = Void
  /\ threw = <<>>
  /\ pass = pass0
  /\ pc = pc0
  /\ last = Step("init", 0, {}, 0)

Start(src, toks, frames, nodes, pass0, pc0) ==
  StartWith(<<>>, <<>>, src, toks, frames, nodes, pass0, pc0)

\* parseCss(input), before the first iteration of tokenizeCss
Init ==
  \/ \E n \in 0..MaxLen : \E src \in StringsOf(Alphabet, n) :
       Start(src, <<>>, <<>>, <<>>, 1, "tokenize")
  \/ \E n \in 0..MaxQuoteLen : \E src \in StringsOf(QuoteAlphabet, n) :
       Start(src, <<>>, <<>>, <<>>, 1, "tokenize")
  \/ \E n \in 0..MaxShapeLen : \E src \in StringsOf(ShapeAlphabet, n) :
       Start(src, <<>>, <<>>, <<>>, 1, "tokenize")

\* tokenizeCss(input) alone
InitTokenize ==
  \/ \E n \in 0..MaxSrcLen : \E src \in StringsOf(SrcAlphabet, n) :
       Start(src, <<>>, <<>>, <<>>, 0, "tokenize")
  \/ \E n \in 0..MaxCommentLen : \E src \in StringsOf(CommentAlphabet, n) :
       Start(src, <<>>, <<>>, <<>>, 0, "tokenize")

\* parseCssNodes(cursor, {stopAtBraceClose}) or parseCssBlock(cursor) called
\* on a cursor over any token list, or over the tokens of a text of the tests
InitTokens ==
  \E fn \in {"parseCssNodes", "parseCssBlock"}, stopAtBraceClose \in BOOLEAN :
    /\ fn = "parseCssBlock" => stopAtBraceClose
    /\ \/ \E n \in 0..MaxTokens : \E toks \in StringsOf(TokenPool, n) :
            Start(<<>>, toks, <<Frame(fn, stopAtBraceClose, Stylesheet(<<>>), 0)>>, <<>>,
                  0, "parse")
       \/ \E src \in TestSources :
            Start(src, tokenizeCss(src), <<Frame(fn, stopAtBraceClose, Stylesheet(<<>>), 0)>>,
                  <<>>, 0, "parse")

\* a cursor created over any token list: createCssTokenCursor(tokens)
InitCursor ==
  \/ \E n \in 0..MaxCursorTokens : \E toks \in StringsOf(TokenPool, n) :
       Start(<<>>, toks, <<>>, <<>>, 0, "cursor")
  \/ \E src \in CursorSources : Start(src, tokenizeCss(src), <<>>, <<>>, 0, "cursor")

\* a stylesheet node about to be built by the caller of stringifyCss
InitAst == Start(<<>>, <<>>, <<Frame("stylesheet", FALSE, Stylesheet(<<>>), 0)>>, <<>>, 1, "build")

\* ------------------------------------------------- stylesheets by hand
RECURSIVE CountNodes(_)
CountNodes(body) ==
  IF body = <<>> THEN 0
  ELSE 1 + (IF Head(body).type \in {"rule", "atRule"} /\ Head(body).body # Null
            THEN CountNodes(Head(body).body) ELSE 0)
         + CountNodes(Tail(body))

RECURSIVE CountBuilt(_)
CountBuilt(frames) ==
  IF frames = <<>> THEN 0
  ELSE CountNodes(Head(frames).nodes) + CountBuilt(Tail(frames))

Building == pc = "build" /\ Len(stack) - 1 + CountBuilt(stack) < MaxAstNodes

\* the caller appends a node without children to the body under construction
BuildLeaf ==
  /\ Building
  /\ \E node \in LeafNodes :
       stack' = [stack EXCEPT ![Len(stack)].nodes = Append(@, node)]
  /\ last' = Step("build", 0, {}, 0)
  /\ UNCHANGED <<child, parent, input, marked, index, tokens, cursor, ast, first, out, ret, threw, pass, pc>>

\* the caller starts the body of a rule or of a block at-rule
BuildBlock ==
  /\ Building
  /\ \E node \in BlockNodes :
       stack' = Append(stack, Frame("body", FALSE, node, 0))
  /\ last' = Step("build", 0, {}, 0)
  /\ UNCHANGED <<child, parent, input, marked, index, tokens, cursor, ast, first, out, ret, threw, pass, pc>>

\* the caller ends the body under construction
BuildEnd ==
  /\ pc = "build"
  /\ IF Len(stack) = 1
     THEN /\ ast' = stack[1].nodes
          /\ first' = stack[1].nodes
          /\ stack' = <<>>
          /\ pc' = "ast"
     ELSE /\ stack' = [SubSeq(stack, 1, Len(stack) - 1) EXCEPT
                         ![Len(stack) - 1].nodes =
                            Append(@, [stack[Len(stack)].node EXCEPT
                                         !.body = stack[Len(stack)].nodes])]
          /\ UNCHANGED <<ast, first, pc>>
  /\ last' = Step("build", 0, {}, 0)
  /\ UNCHANGED <<child, parent, input, marked, index, tokens, cursor, out, ret, threw, pass>>

\* ------------------------------------------- direct calls of the cursor
CallStep(op, from, arg) == [op |-> op, from |-> from, done |-> {}, n |-> 0, arg |-> arg]

\* one call of a method of the cursor: its result, the index it leaves and
\* the message it throws
Called(op, arg, result, i, error) ==
  /\ pc = "cursor"
  /\ ret' = result
  /\ cursor' = i
  /\ threw' = error
  /\ last' = CallStep(op, cursor, arg)
  /\ UNCHANGED <<child, parent, input, index, tokens, stack, ast, first, out, pass, pc>>

Returned(op, arg, r) == Called(op, arg, [value |-> r.value], r.index, <<>>)

Expected(type, e) ==
  Called("expect", {type}, IF e.error = <<>> THEN [token |-> e.token] ELSE Void, e.index, e.error)

CursorNext ==
  /\ Called("next", {}, [token |-> next(tokens, cursor).token], next(tokens, cursor).index, <<>>)
  /\ UNCHANGED marked

CursorExpect ==
  /\ \E type \in TokenTypes : Expected(type, expect(tokens, cursor, type))
  /\ UNCHANGED marked

CursorMark ==
  /\ Called("mark", {}, [mark |-> mark(tokens, cursor)], cursor, <<>>)
  /\ marked' = mark(tokens, cursor)

CursorReset ==
  /\ Called("reset", {}, Void, reset(tokens, cursor, marked), <<>>)
  /\ UNCHANGED marked

CursorReadUntil ==
  /\ \E stopTypes \in StopLists :
       Returned("readUntil", stopTypes, readUntil(tokens, cursor, stopTypes))
  /\ UNCHANGED marked

CursorSkipUntil ==
  /\ \E stopTypes \in StopLists :
       Called("skipUntil", stopTypes, Void, skipUntil(tokens, cursor, stopTypes), <<>>)
  /\ UNCHANGED marked

\* readCssKeyOrSelector(cursor), called as the tests call it
CursorReadKeyOrSelector ==
  /\ Returned("readCssKeyOrSelector", {}, readCssKeyOrSelector(tokens, cursor))
  /\ UNCHANGED marked

Declared(prop, r) ==
  Called("parseCssDeclaration", {prop}, IF r.error = <<>> THEN [node |-> r.node] ELSE Void,
         r.index, r.error)

\* parseCssDeclaration(cursor, prop), called as the tests call it
CursorParseDeclaration ==
  /\ \E prop \in Props : Declared(prop, parseCssDeclaration(tokens, cursor, prop))
  /\ UNCHANGED marked

\* ------------------------------------------------------------ tokenizeCss
\* the text tokenizeCss is called on: the input, or the text that
\* stringifyCss returned when the pipeline parses it again
Source == IF pass = 2 THEN out ELSE input

TokenizeIteration ==
  /\ pc = "tokenize"
  /\ ~charEof(Source, index)
  /\ LET r == tokenLoopBody(Source, index, tokens)
     IN /\ index' = r.index
        /\ tokens' = r.tokens
  /\ last' = Step("tokenize", index, {index}, IF last.op = "tokenize" THEN last.n + 1 ELSE 1)
  /\ UNCHANGED <<child, parent, input, marked, cursor, stack, ast, first, out, ret, threw, pass, pc>>

\* the loop of tokenizeCss ends and it returns `tokens`; parseCss then
\* creates the cursor and calls parseCssNodes(cursor, {stopAtBraceClose: false})
TokenizeReturn ==
  /\ pc = "tokenize"
  /\ charEof(Source, index)
  /\ cursor' = 0
  /\ IF pass = 0
     THEN stack' = stack /\ pc' = "returned"
     ELSE stack' = <<Frame("parseCssNodes", FALSE, Stylesheet(<<>>), 0)>> /\ pc' = "parse"
  /\ last' = Step("return", index, {}, last.n)
  /\ UNCHANGED <<child, parent, input, marked, index, tokens, ast, first, out, ret, threw, pass>>

\* ------------------------------------------- parseCssNodes / parseCssBlock
Parsing == pc = "parse" /\ stack # <<>>

Top == stack[Len(stack)]

Body ==
  IF Top.fn = "parseCssNodes"
  THEN parseCssNodesBody(tokens, cursor, Top.stopAtBraceClose)
  ELSE parseCssBlockBody(tokens, cursor)

InLoop == pc = "parse" /\ stack # <<>> /\ ~isEof(tokens, cursor)

\* the innermost call returns `Top.nodes` with the cursor at i; `ended` are
\* the iterations of the innermost loop that end with it
Return(op, i, ended) ==
  /\ cursor' = i
  /\ IF Len(stack) = 1
     THEN /\ stack' = <<>>
          /\ ast' = Top.nodes
          /\ first' = IF pass = 1 THEN Top.nodes ELSE first
          /\ pc' = "ast"
          /\ last' = Step(op, cursor, ended, 0)
     ELSE /\ stack' = [SubSeq(stack, 1, Len(stack) - 1) EXCEPT
                         ![Len(stack) - 1].nodes =
                            Append(@, [Top.node EXCEPT !.body = Top.nodes])]
          /\ last' = Step(op, cursor, ended \cup {Top.from}, 0)
          /\ UNCHANGED <<ast, first, pc>>
  /\ UNCHANGED <<child, parent, input, marked, index, tokens, out, ret, threw, pass>>

\* the iteration ends inside the loop: `continue`, or a failed expect
Continue(b) ==
  /\ cursor' = b.index
  /\ IF b.error # <<>>
     THEN /\ threw' = b.error
          /\ pc' = "threw"
          /\ stack' = <<>>
          /\ last' = Step(b.op, cursor, {}, 0)
     ELSE /\ stack' = [stack EXCEPT ![Len(stack)].nodes =
                         IF b.node = NoNode THEN @ ELSE Append(@, b.node)]
          /\ last' = Step(b.op, cursor, {cursor}, 0)
          /\ UNCHANGED <<threw, pc>>
  /\ UNCHANGED <<child, parent, input, marked, index, tokens, ast, first, out, ret, pass>>

\* the iteration calls parseCssBlock for the body of b.node
Call(b) ==
  /\ cursor' = b.index
  /\ IF b.error # <<>>
     THEN /\ threw' = b.error
          /\ pc' = "threw"
          /\ stack' = <<>>
     ELSE /\ stack' = Append(stack, Frame("parseCssBlock", TRUE, b.node, cursor))
          /\ UNCHANGED <<threw, pc>>
  /\ last' = Step(b.op, cursor, {}, 0)
  /\ UNCHANGED <<child, parent, input, marked, index, tokens, ast, first, out, ret, pass>>

Returns(op, b) == b.op = op /\ Return(op, b.index, {cursor})

Continues(op, b) == b.op = op /\ Continue(b)

Calls(op, b) == b.op = op /\ Call(b)

LoopExit == Parsing /\ isEof(tokens, cursor) /\ Return("return", cursor, {})

BraceClose == InLoop /\ Returns("break", Body)

Semicolon == InLoop /\ Continues("semicolon", Body)

AtRule == InLoop /\ Continues("atRule", Body)

AtRuleBlock == InLoop /\ Calls("atRuleBlock", Body)

Recover == InLoop /\ Continues("recover", Body)

Declaration == InLoop /\ Continues("declaration", Body)

Rule == InLoop /\ Calls("rule", Body)

Skip == InLoop /\ Continues("skip", Body)

\* ------------------------------------------------------------ stringifyCss
Stringify ==
  /\ pc = "ast"
  /\ pass = 1
  /\ out' = stringifyCss(Stylesheet(ast))
  /\ pc' = "stringified"
  /\ last' = Step("stringifyCss", 0, {}, 0)
  /\ UNCHANGED <<child, parent, input, marked, index, tokens, cursor, stack, ast, first, ret, threw, pass>>

\* parseCss(stringifyCss(ast))
Reparse ==
  /\ pc = "stringified"
  /\ pass = 1
  /\ index' = 0
  /\ tokens' = <<>>
  /\ pass' = 2
  /\ pc' = "tokenize"
  /\ last' = Step("parseCss", 0, {}, 0)
  /\ UNCHANGED <<child, parent, input, cursor, marked, stack, ast, first, out, ret, threw>>

\* ------------------------------------------------------- specifications
NextTokenize == TokenizeIteration \/ TokenizeReturn

NextParse ==
  \/ LoopExit \/ BraceClose \/ Semicolon \/ AtRule \/ AtRuleBlock
  \/ Recover \/ Declaration \/ Rule \/ Skip

Next == NextTokenize \/ NextParse \/ Stringify \/ Reparse

Spec == Init /\ [][Next]_vars

SpecTokenize == InitTokenize /\ [][NextTokenize]_vars

SpecTokens == InitTokens /\ [][NextParse]_vars

NextCursor ==
  \/ CursorNext \/ CursorExpect \/ CursorMark \/ CursorReset
  \/ CursorReadUntil \/ CursorSkipUntil
  \/ CursorReadKeyOrSelector \/ CursorParseDeclaration

SpecCursor == InitCursor /\ [][NextCursor]_vars

NextAst == BuildLeaf \/ BuildBlock \/ BuildEnd \/ Stringify

SpecAst == InitAst /\ [][NextAst]_vars

\* a call resolveCssSelector(selector, parent) about to be made
InitSelector ==
  \/ \E n \in 0..MaxSplitLen : \E list \in StringsOf(SplitAlphabet, n) :
       \E other \in Companions :
         \/ StartWith(list, other, <<>>, <<>>, <<>>, <<>>, 0, "resolve")
         \/ StartWith(other, list, <<>>, <<>>, <<>>, <<>>, 0, "resolve")
  \/ \E n \in 0..MaxChildLen, m \in 0..MaxParentLen :
       \E sel \in StringsOf(ChildAlphabet, n), par \in StringsOf(ParentAlphabet, m) :
         StartWith(sel, par, <<>>, <<>>, <<>>, <<>>, 0, "resolve")

\* the call returns r.value by the path r.path
ResolveBy(path, r) ==
  /\ pc = "resolve"
  /\ r.path = path
  /\ ret' = [value |-> r.value]
  /\ pc' = "resolved"
  /\ last' = Step(path, 0, {}, 0)
  /\ UNCHANGED <<child, parent, input, index, tokens, cursor, marked, stack, ast, first,
                 out, threw, pass>>

\* `return ''` and `return childSelector`
ResolveEmpty == ResolveBy("empty", resolveCssSelector(child, parent))

\* the fast path
ResolveFast == ResolveBy("fast", resolveCssSelector(child, parent))

\* the expansion of both lists
ResolveGeneral == ResolveBy("general", resolveCssSelector(child, parent))

NextSelector == ResolveEmpty \/ ResolveFast \/ ResolveGeneral

SpecSelector == InitSelector /\ [][NextSelector]_vars

ParseOps ==
  {"return", "break", "semicolon", "atRule", "atRuleBlock", "recover", "declaration",
   "rule", "skip"}

\* ------------------------------------------------------------------ C1
\* C1: parseCss never throws: in every run of tokenizeCss ->
\* createCssTokenCursor -> parseCssNodes on any text, no cursor.expect fails,
\* so no message is thrown and the parse never ends in the thrown state.
C1_NeverThrows == threw = <<>> /\ pc # "threw"

\* expect('at') and expect('braceOpen') have been executed: the parse of
\* `@a{` has entered the block of the at-rule
C1_Witness ==
  /\ pass = 1 /\ pc = "parse" /\ last.op = "atRuleBlock"
  /\ input = <<"@", "a", "{">> /\ Len(stack) = 2 /\ Top.node.type = "atRule"
  /\ threw = <<>>

\* ------------------------------------------------------------------ C2
\* C2: every iteration of the main loop of tokenizeCss ends with the index
\* strictly greater than it started with, the index never passes the end of
\* the text, and the number of iterations never exceeds the length of the
\* text: the loop ends and the token list is finite.
C2_TokenizeProgress ==
  /\ index <= Len(Source)
  /\ Len(tokens) <= Len(Source)
  /\ last.op = "tokenize" => (index > last.from /\ last.n <= Len(input))
  /\ last.op = "return" /\ pc = "returned" => last.n <= Len(input)

\* a bare slash, then an unbalanced parenthesis running to the end of the
\* text: two iterations, one params token
C2_Witness ==
  /\ pc = "returned" /\ input = <<"/", "(", "a">> /\ last.n = 2
  /\ tokens = <<ValueToken("params", <<"(", "a">>)>>

\* ------------------------------------------------------------------ C3
\* C3: every iteration of the loop of parseCssNodes and of parseCssBlock,
\* also one that runs parseCssAtRule, parseCssDeclaration or parseCssRule
\* (with the nested parseCssBlock) or the mark/reset of readCssKeyOrSelector,
\* ends with the cursor strictly after the token it started on; the cursor
\* never passes the end of the token list.
C3_ForwardProgress ==
  /\ cursor <= Len(tokens)
  /\ last.op \in ParseOps => \A from \in last.done : cursor > from

\* a nested block returns at its `}`: the iteration of the inner loop and
\* the iteration of the caller that opened the block both end here
C3_Witness ==
  /\ last.op = "break" /\ Cardinality(last.done) = 2 /\ stack # <<>>

\* ------------------------------------------------------------------ C4
\* the text without its white space
Squeeze(s) == SelectSeq(s, LAMBDA ch : ch \notin Whitespace)

SameField(x, y) ==
  IF x = Undefined \/ y = Undefined THEN x = y ELSE Squeeze(x) = Squeeze(y)

RECURSIVE SameBody(_, _)

SameNode(x, y) ==
  /\ x.type = y.type
  /\ CASE x.type = "declaration" ->
            Squeeze(x.prop) = Squeeze(y.prop) /\ Squeeze(x.value) = Squeeze(y.value)
       [] x.type = "rule" ->
            Squeeze(x.selector) = Squeeze(y.selector) /\ SameBody(x.body, y.body)
       [] x.type = "atRule" ->
            /\ Squeeze(x.name) = Squeeze(y.name)
            /\ SameField(x.params, y.params)
            /\ IF x.body = Null \/ y.body = Null THEN x.body = y.body
               ELSE SameBody(x.body, y.body)
       [] OTHER -> FALSE

SameBody(x, y) ==
  /\ Len(x) = Len(y)
  /\ \A k \in 1..Len(x) : SameNode(x[k], y[k])

\* every string, group and comment of the text is closed: a `}` put after
\* the text is a token of its own
Closed(src) == tokenizeCss(Append(src, "}")) = Append(tokenizeCss(src), Token("braceClose"))

\* no empty declaration, no empty rule, no empty block
RECURSIVE CleanBody(_)
CleanBody(body) ==
  \A k \in 1..Len(body) :
    CASE body[k].type = "declaration" -> body[k].prop # <<>> /\ body[k].value # <<>>
      [] body[k].type = "rule" ->
           body[k].selector # <<>> /\ body[k].body # <<>> /\ CleanBody(body[k].body)
      [] body[k].type = "atRule" ->
           body[k].body = Null \/ (body[k].body # <<>> /\ CleanBody(body[k].body))
      [] OTHER -> FALSE

\* C4: round trip: when parseCss(x) has no empty declaration, rule or block,
\* parseCss(stringifyCss(parseCss(x))) has the same nodes in the same order
\* and nesting, with the same prop, value, selector, name and params up to
\* white space, also when x holds quoted strings with embedded quotes.
C4_RoundTrip ==
  (pc = "ast" /\ pass = 2 /\ Closed(input) /\ CleanBody(first)) => SameBody(ast, first)

\* ------------------------------------------------------------------ C5
\* C5: idempotence through a parse: for the stylesheet x = parseCss(input)
\* of a text whose strings, groups and comments are closed,
\* stringifyCss(parseCss(stringifyCss(x))) is stringifyCss(x).
C5_StringifyIdempotent ==
  (pc = "ast" /\ pass = 2 /\ Closed(input)) => stringifyCss(Stylesheet(ast)) = out

\* ------------------------------------------------------------------ C6
RECURSIVE RefBody(_)

RefParams(node) ==
  IF node.params = Undefined \/ node.params = <<>> THEN <<>> ELSE <<" ">> \o node.params

RefBlock(head, body) == IF body = <<>> THEN <<>> ELSE head \o <<"{">> \o body \o <<"}">>

RefNode(node) ==
  CASE node.type = "declaration" ->
         IF Trim(node.value) = <<>> THEN <<>>
         ELSE node.prop \o <<":">> \o Trim(node.value) \o <<";">>
    [] node.type = "rule" -> RefBlock(node.selector, RefBody(node.body))
    [] node.type = "atRule" /\ node.body = Null ->
         <<"@">> \o node.name \o RefParams(node) \o <<";">>
    [] node.type = "atRule" /\ node.body # Null ->
         RefBlock(<<"@">> \o node.name \o RefParams(node), RefBody(node.body))
    [] OTHER -> <<>>

RefBody(body) == IF body = <<>> THEN <<>> ELSE RefNode(Head(body)) \o RefBody(Tail(body))

\* C6: stringifyCss of a stylesheet is the in-order concatenation, with no
\* separator, of its children's strings: `prop:value;` with the value
\* trimmed or '' when it is blank; `selector{body}` or '' when the body
\* string is empty; `@name;` / `@name params;` for a body of null, never
\* pruned; `@name{body}` / `@name params{body}` or '' when the body string
\* is empty; '' for a node of any other type.
C6_StringifyIsReference == pc = "stringified" => out = RefBody(ast)

\* a rule holding only an empty rule is removed, the directive with no
\* params that follows it is kept
C6_Witness ==
  /\ pc = "stringified"
  /\ Len(ast) = 2 /\ ast[1].type = "rule" /\ Len(ast[1].body) = 1
  /\ ast[1].body[1].type = "rule"
  /\ ast[2].type = "atRule" /\ ast[2].body = Null /\ ast[2].params = Undefined
  /\ out = <<"@", "a", ";">>

\* ------------------------------------------------------------------ C7
\* `{` directly followed by `}`
EmitsEmptyBlock(toks) ==
  \E k \in 1..(Len(toks) - 1) : toks[k].type = "braceOpen" /\ toks[k + 1].type = "braceClose"

\* `{` with nothing before it that could be its selector or at-rule header
EmitsEmptySelector(toks) ==
  \E k \in 1..Len(toks) :
    /\ toks[k].type = "braceOpen"
    /\ k = 1 \/ toks[k - 1].type \in {"braceOpen", "braceClose", "semicolon"}

RECURSIVE SelectorsNotBlank(_)
SelectorsNotBlank(body) ==
  \A k \in 1..Len(body) :
    CASE body[k].type = "rule" ->
           Trim(body[k].selector) # <<>> /\ SelectorsNotBlank(body[k].body)
      [] body[k].type = "atRule" /\ body[k].body # Null -> SelectorsNotBlank(body[k].body)
      [] OTHER -> TRUE

HeaderEnd(toks, i) ==
  CHOOSE j \in i..Len(toks) :
    /\ j = Len(toks) \/ toks[j + 1].type \in {"semicolon", "braceOpen"}
    /\ \A k \in i..(j - 1) : toks[k + 1].type \notin {"semicolon", "braceOpen"}

TypeAt(toks, j) == IF j < Len(toks) THEN toks[j + 1].type ELSE "undefined"

IsNodeList(body) ==
  \A k \in 1..Len(body) : body[k].type \in {"declaration", "rule", "atRule"}

RECURSIVE DocumentedPieces(_, _, _, _)
DocumentedPieces(toks, from, k, stopTypes) ==
  IF k >= Len(toks) \/ toks[k + 1].type \in stopTypes THEN <<>>
  ELSE LET token == toks[k + 1]
           piece ==
             IF token.type = "text"
               THEN (IF k > from /\ toks[k].type = "text" THEN <<" ">> ELSE <<>>) \o token.value
             ELSE IF token.type = "string" THEN <<"\"">> \o token.value \o <<"\"">>
             ELSE IF token.type = "params" THEN token.value
             ELSE <<>>
       IN piece \o DocumentedPieces(toks, from, k + 1, stopTypes)

\* C9: the result of cursor.readUntil(stopTypes) is the trimmed concatenation
\* of the tokens before the first stop token: a text token preceded by a
\* space only when the token right before it is a text token read by the
\* same call, a string token in double quotes, a params token verbatim, and
\* nothing for a token of another type.
C9_ReadUntilResult ==
  last.op = "readUntil" =>
    ret = [value |-> Trim(DocumentedPieces(tokens, last.from, last.from, last.arg))]

\* ----------------------------------------------------------------- C10
NoSpace(s) == \A k \in 1..Len(s) : s[k] \notin Whitespace

\* the tokens of the header: a name, then groups and texts in turn
Alternates(h) ==
  /\ Len(h) >= 3
  /\ h[1].type = "text" /\ NoSpace(h[1].value)
  /\ \A k \in 2..Len(h) :
       /\ h[k].type = IF k % 2 = 0 THEN "params" ELSE "text"
       /\ NoSpace(h[k].value)

RECURSIVE Values(_)
Values(h) == IF h = <<>> THEN <<>> ELSE Head(h).value \o Values(Tail(h))

\* C10: when the header of an at-rule is a name followed by parenthesised
\* groups and texts in turn, as in `@scope (.card) to (.title) {...}`,
\* parseCssAtRule returns the name and, as params, the pieces after it in
\* source order with nothing inserted between them: `(.card)to(.title)`.
C10_ParamsNoSeparator ==
  (last.op \in {"atRule", "atRuleBlock"} /\ stack # <<>>) =>
    LET h == SubSeq(tokens, last.from + 2, HeaderEnd(tokens, last.from + 1))
        node == IF last.op = "atRule" THEN Top.nodes[Len(Top.nodes)] ELSE Top.node
    IN Alternates(h) => node.name = h[1].value /\ node.params = Values(Tail(h))

\* ----------------------------------------------------------------- C11
Quoted(value) == <<"\"">> \o value \o <<"\"">>

\* C11: when the header of a directive at-rule is an identifier followed by
\* a quoted string, as in `@charset "UTF-8";`, parseCssAtRule returns the
\* identifier alone as name, the string in double quotes as params and a
\* body of null; the name of an at-rule never holds a quote character.
C11_NameBeforeString ==
  (last.op \in {"atRule", "atRuleBlock"} /\ stack # <<>>) =>
    LET h == SubSeq(tokens, last.from + 2, HeaderEnd(tokens, last.from + 1))
        node == IF last.op = "atRule" THEN Top.nodes[Len(Top.nodes)] ELSE Top.node
    IN /\ \A k \in 1..Len(node.name) : node.name[k] \notin {"\"", "'"}
       /\ (/\ last.op = "atRule" /\ Len(h) = 2
           /\ h[1].type = "text" /\ NoSpace(h[1].value) /\ h[2].type = "string") =>
            /\ node.name = h[1].value
            /\ node.params = Quoted(h[2].value)
            /\ node.body = Null

\* ----------------------------------------------------------------- C12
\* the outcome of expect(type) called at index i: the message thrown, the
\* token returned and the index left, with the messages built by eof and
\* mismatch
ExpectOutcome(type, i, eof(_), mismatch(_, _)) ==
  IF i >= Len(tokens) THEN threw = eof(type)
  ELSE IF tokens[i + 1].type # type THEN threw = mismatch(type, tokens[i + 1].type)
  ELSE threw = <<>> /\ ret = [token |-> tokens[i + 1]] /\ cursor = i + 1

PlainEof(type) == <<"Expected \"", type, "\" but reached end of input.">>

PlainMismatch(type, actual) == <<"Expected \"", type, "\" but got \"", actual, "\".">>

TaggedEof(type) ==
  <<"[@react-hive/honey-css]: Expected \"", type, "\" but reached end of input.">>

TaggedMismatch(type, actual) ==
  <<"[@react-hive/honey-css]: Expected \"", type, "\" but got \"", actual, "\".">>

\* C12 as stated: cursor.expect(type) fails at EOF with the message
\* 'Expected "<type>" but reached end of input.', fails on a token of another
\* type with 'Expected "<type>" but got "<actualType>".', and otherwise
\* returns the current token and advances the cursor by exactly one.
C12_ExpectOutcomes ==
  last.op = "expect" =>
    \A type \in last.arg : ExpectOutcome(type, last.from, PlainEof, PlainMismatch)

\* C12 amended: the same three outcomes, the two messages starting with
\* the tag `[@react-hive/honey-css]: `.
C12_ExpectTaggedOutcomes ==
  last.op = "expect" =>
    \A type \in last.arg : ExpectOutcome(type, last.from, TaggedEof, TaggedMismatch)

\* expect('braceOpen') on the token list [semicolon] has thrown
C12_Witness ==
  /\ last.op = "expect" /\ last.arg = {"braceOpen"} /\ last.from = 0
  /\ tokens = <<Token("semicolon")>>
  /\ threw = TaggedMismatch("braceOpen", "semicolon")

\* ----------------------------------------------------------------- C13
\* the tokens that successive calls of next() return from index i on
RECURSIVE nextSequence(_, _)
nextSequence(toks, i) ==
  IF next(toks, i).token = NoToken THEN <<>>
  ELSE <<next(toks, i).token>> \o nextSequence(toks, next(toks, i).index)

\* what a caller can observe of a cursor at index i
Observed(toks, i) ==
  [isEof |-> isEof(toks, i), peek |-> peek(toks, i), next |-> nextSequence(toks, i)]

\* C13: no cursor operation modifies the token list, and reset(m), with m
\* the value mark() returned, leaves the cursor with the isEof(), the peek()
\* and the sequence of next() results it had when mark() was called,
\* whatever calls of next, expect, readUntil and skipUntil came in between.
C13_MarkReset ==
  [][/\ tokens' = tokens
     /\ (pc = "cursor" /\ last'.op = "mark") =>
           Observed(tokens', marked') = Observed(tokens, cursor)
     /\ (pc = "cursor" /\ last'.op # "mark") => marked' = marked
     /\ (pc = "cursor" /\ last'.op = "reset") =>
           Observed(tokens', cursor') = Observed(tokens, marked)]_vars

\* reset has taken the cursor from the end of two tokens back to a mark
\* made after the first one
C13_Witness ==
  /\ last.op = "reset" /\ last.from = 2 /\ marked = 1 /\ cursor = 1
  /\ Len(tokens) = 2

\* ----------------------------------------------------------------- C14
\* the first index from i on that is EOF or holds a token of one of `types`
FirstStop(toks, i, types) ==
  CHOOSE j \in i..Len(toks) :
    /\ j = Len(toks) \/ toks[j + 1].type \in types
    /\ \A k \in i..(j - 1) : toks[k + 1].type \notin types

\* the speculative selector read from i ends on a token that is not `{`
Fallback(toks, i) ==
  /\ i < Len(toks)
  /\ toks[i + 1].type # "colon"
  /\ TypeAt(toks, FirstStop(toks, i, {"braceOpen", "braceClose", "semicolon", "at"}))
       # "braceOpen"

\* C14: when the first token is not a colon and the selector read
\* speculatively is not followed by braceOpen, readCssKeyOrSelector returns
\* what readUntil gives from the starting position with the stop types colon,
\* braceOpen, semicolon, braceClose and at; the cursor is left on the first
\* token of one of these types, which is not consumed, so that no colon lies
\* before the cursor. `a:hover: 1;` gives the key `a` with the cursor on the
\* first colon, `color @media (min-width: 1px) {}` the key `color` with the
\* cursor on the at token.
C14_KeyFallback ==
  (last.op = "readCssKeyOrSelector" /\ Fallback(tokens, last.from)) =>
    /\ cursor = FirstStop(tokens, last.from, KeyStopTypes)
    /\ cursor < Len(tokens) => tokens[cursor + 1].type \in KeyStopTypes
    /\ \A k \in last.from..(cursor - 1) : tokens[k + 1].type \notin KeyStopTypes
    /\ ret = [value |-> readUntil(tokens, last.from, KeyStopTypes).value]
    /\ (input = AHoverSource /\ last.from = 0) =>
         ret.value = <<"a">> /\ cursor = 1 /\ tokens[2].type = "colon"
    /\ (input = ColorMediaSource /\ last.from = 0) =>
         ret.value = <<"c", "o", "l", "o", "r">> /\ cursor = 1 /\ tokens[2].type = "at"

\* readCssKeyOrSelector on the tokens of `a:hover: 1;` has returned
C14_Witness ==
  /\ last.op = "readCssKeyOrSelector" /\ last.from = 0 /\ input = AHoverSource
  /\ Fallback(tokens, 0) /\ Len(tokens) = 6
  /\ ret = [value |-> <<"a">>] /\ cursor = 1

\* ----------------------------------------------------------------- C15
\* C15: parseCssDeclaration(cursor, prop) called on a colon consumes the
\* colon and every token before the first semicolon or braceClose (or EOF),
\* then that semicolon when there is one and never a braceClose, and returns
\* a declaration whose prop is the argument; called on anything else, it
\* throws.
C15_DeclarationFrame ==
  last.op = "parseCssDeclaration" =>
    IF TypeAt(tokens, last.from) # "colon" THEN threw # <<>>
    ELSE LET end == FirstStop(tokens, last.from + 1, {"semicolon", "braceClose"})
         IN /\ threw = <<>>
            /\ cursor = IF TypeAt(tokens, end) = "semicolon" THEN end + 1 ELSE end
            /\ TypeAt(tokens, end) = "braceClose" => TypeAt(tokens, cursor) = "braceClose"
            /\ ret.node.type = "declaration"
            /\ last.arg = {ret.node.prop}

\* parseCssDeclaration(cursor, 'color') on the tokens of `color: red}`,
\* called on the colon, has returned with the cursor on the braceClose
C15_Witness ==
  /\ last.op = "parseCssDeclaration" /\ last.from = 1 /\ input = ColorRedSource
  /\ last.arg = {"color"} /\ cursor = 3 /\ TypeAt(tokens, 3) = "braceClose"
  /\ ret = [node |-> [type |-> "declaration", prop |-> "color", value |-> <<"r", "e", "d">>]]

\* parseCssDeclaration has consumed the semicolon that ends the value
C15_WitnessSemicolon ==
  /\ last.op = "parseCssDeclaration" /\ threw = <<>>
  /\ cursor > 0 /\ TypeAt(tokens, cursor - 1) = "semicolon"

\* ----------------------------------------------------------------- C16
\* the nesting depth after the first j tokens of a block that was opened
\* just before the first token
Depth(toks, j) ==
  1 + Cardinality({k \in 1..j : toks[k].type = "braceOpen"})
    - Cardinality({k \in 1..j : toks[k].type = "braceClose"})

\* `{` followed by toks has balanced braces
Balanced(toks) ==
  /\ \A j \in 0..Len(toks) : Depth(toks, j) >= 0
  /\ Depth(toks, Len(toks)) = 0

\* the number of tokens up to and including the braceClose that closes the
\* block
MatchingClose(toks) == CHOOSE j \in 1..Len(toks) : Depth(toks, j) = 0 /\ \A k \in 0..(j - 1) : Depth(toks, k) > 0

\* C16: parseCssBlock called immediately after a `{`, on tokens whose braces
\* are balanced, returns with the cursor immediately after the braceClose
\* that closes this `{`: that token is consumed and none after it.
C16_BlockEndsAtMatchingClose ==
  [][(/\ Parsing /\ Len(stack) = 1 /\ Top.fn = "parseCssBlock"
      /\ stack' = <<>> /\ pc' # "threw"
      /\ Balanced(tokens))
       => cursor' = MatchingClose(tokens)]_vars

\* ----------------------------------------------------------------- C17
\* the call of parseCssNodes that the run started with is the one running
AtRootLevel == Parsing /\ Len(stack) = 1 /\ Top.fn = "parseCssNodes"

RECURSIVE Verbatim(_, _)
Verbatim(childPart, parentPart) ==
  IF childPart = <<>> THEN <<>>
  ELSE (IF Head(childPart) = "&" THEN parentPart ELSE <<Head(childPart)>>)
       \o Verbatim(Tail(childPart), parentPart)

\* ----------------------------------------------------------------- C18
\* the entry of the result for one pair of parts
Entry(childPart, parentPart) ==
  IF includes(childPart, "&") THEN Verbatim(childPart, parentPart)
  ELSE parentPart \o <<" ">> \o childPart

\* the p * c entries, the parent parts in the outer loop
Entries(parentParts, childParts) ==
  [k \in 1..(Len(parentParts) * Len(childParts)) |->
     Entry(childParts[((k - 1) % Len(childParts)) + 1],
           parentParts[((k - 1) \div Len(childParts)) + 1])]

\* the entries joined by `, `
RECURSIVE CommaList(_)
CommaList(entries) ==
  IF entries = <<>> THEN <<>>
  ELSE Head(entries) \o (IF Len(entries) > 1 THEN <<",", " ">> ELSE <<>>)
       \o CommaList(Tail(entries))

\* C18: resolveCssSelector(selector, parent) returns '' for a blank
\* selector and the trimmed selector for a blank parent; otherwise, with p
\* top-level parts of the parent and c of the selector, it returns p * c
\* entries joined by ', ', the parent parts in the outer loop and the child
\* parts in the inner one, the entry of a pair being the child part with
\* each `&` replaced by the parent part when it holds `&`, and
\* `parentPart childPart` otherwise.
C18_CartesianExpansion ==
  pc = "resolved" =>
    ret.value =
      IF Trim(child) = <<>> THEN <<>>
      ELSE IF Trim(parent) = <<>> THEN Trim(child)
      ELSE CommaList(Entries(forEachTopLevelSelector(Trim(parent)),
                             forEachTopLevelSelector(Trim(child))))

\* C20: when the parent is not blank and every part of the selector holds
\* `&`, the result is made of the parts of the selector with each `&`
\* replaced by the parent part character for character, whatever the
\* characters of the parent, every other character being kept: it holds as
\* many copies of the parent part as the part holds `&`.
C20_VerbatimParent ==
  (/\ pc = "resolved" /\ Trim(parent) # <<>> /\ Trim(child) # <<>>
   /\ \A k \in 1..Len(forEachTopLevelSelector(Trim(child))) :
        includes(forEachTopLevelSelector(Trim(child))[k], "&"))
    => ret.value =
         CommaList([k \in 1..(Len(forEachTopLevelSelector(Trim(parent)))
                               * Len(forEachTopLevelSelector(Trim(child)))) |->
           Verbatim(forEachTopLevelSelector(Trim(child))
                      [((k - 1) % Len(forEachTopLevelSelector(Trim(child)))) + 1],
                    forEachTopLevelSelector(Trim(parent))
                      [((k - 1) \div Len(forEachTopLevelSelector(Trim(child)))) + 1])])

\* ----------------------------------------------------------------- C19
\* the character at index i of s (from 0) is right after a backslash
AfterBackslash(s, i) == i > 0 /\ s[i] = "\\"

\* the character at index i is escaped: it is right after a backslash that
\* is not escaped itself
RECURSIVE Escaped(_, _)
Escaped(s, i) == i > 0 /\ s[i] = "\\" /\ ~Escaped(s, i - 1)

\* the quote that is open at index i, NoQuote when none is
RECURSIVE QuoteAt(_, _)
QuoteAt(s, i) ==
  IF i = 0 THEN NoQuote
  ELSE IF Escaped(s, i - 1) \/ s[i] = "\\" THEN QuoteAt(s, i - 1)
  ELSE IF QuoteAt(s, i - 1) # NoQuote
    THEN IF s[i] = QuoteAt(s, i - 1) THEN NoQuote ELSE QuoteAt(s, i - 1)
  ELSE IF s[i] \in {"\"", "'"} THEN s[i]
  ELSE NoQuote

\* the number of characters ch before index i that are neither escaped nor
\* inside a quoted string
Count(s, i, ch) ==
  Cardinality({k \in 0..(i - 1) :
                 s[k + 1] = ch /\ ~Escaped(s, k) /\ QuoteAt(s, k) = NoQuote})

\* the indices of the commas that start a new part, the commas for which
\* excluded(s, i) holds apart
Splits(s, excluded(_, _)) ==
  {i \in 0..(Len(s) - 1) :
     /\ s[i + 1] = ","
     /\ Count(s, i, "(") - Count(s, i, ")") = 0
     /\ Count(s, i, "[") - Count(s, i, "]") = 0
     /\ QuoteAt(s, i) = NoQuote
     /\ ~excluded(s, i)}

\* the pieces of s between the indices of `splits`, from index `start` on,
\* trimmed, the empty ones dropped, in source order
RECURSIVE Pieces(_, _, _)
Pieces(s, start, splits) ==
  IF \E i \in splits : i >= start
  THEN LET i == CHOOSE j \in splits : j >= start /\ \A k \in splits : k >= start => j <= k
       IN (IF Trim(Slice(s, start, i)) # <<>> THEN <<Trim(Slice(s, start, i))>> ELSE <<>>)
          \o Pieces(s, i + 1, splits)
  ELSE IF Trim(Slice(s, start, Len(s))) # <<>> THEN <<Trim(Slice(s, start, Len(s)))>>
  ELSE <<>>

\* the parts of both lists are those that the commas of Splits give, and
\* the result of the general path is made of them
SplitsBy(excluded(_, _)) ==
  pc = "resolved" =>
    /\ \A s \in {Trim(child), Trim(parent)} :
         forEachTopLevelSelector(s) = Pieces(s, 0, Splits(s, excluded))
    /\ last.op = "general" =>
         ret.value = joinResult(forEachParent(
                       Pieces(Trim(parent), 0, Splits(Trim(parent), excluded)), Trim(child)))

\* C19 as stated: a comma starts a new part if and only if the parenthesis
\* depth and the bracket depth are zero at it, no quoted string is open and
\* the comma is not the character right after a backslash; the parts are
\* trimmed, the empty ones dropped, and delivered in source order, for the
\* parent list and the child list alike.
C19_TopLevelCommas == SplitsBy(AfterBackslash)

\* C19 amended: the same with `the comma is not escaped`, a backslash
\* escaping the character after it unless it is escaped itself.
C19_UnescapedTopLevelCommas == SplitsBy(Escaped)

\* both lists of `(,),a` resolved against `p, q` have been split: the comma
\* inside the parentheses starts no part, the comma after them does
C19_Witness ==
  /\ pc = "resolved" /\ last.op = "general"
  /\ child = <<"(", ",", ")">> /\ parent = <<"p", ",", "q">>
  /\ ret.value = <<"p", " ", "(", ",", ")", ",", " ", "q", " ", "(", ",", ")">>

\* ----------------------------------------------------------------- C21
\* C21: for every pair (selector, parent), resolveCssSelector, which takes
\* its fast path when neither trimmed string holds a comma, returns the
\* string that the version without a fast path returns by splitting both
\* lists and expanding them.
C21_FastPathIsOptimisation ==
  pc = "resolved" => ret.value = resolveExpanded(Trim(child), Trim(parent)).value

\* the fast path has replaced the two `&` of `&c&` by the parent `$&`
C21_Witness ==
  /\ pc = "resolved" /\ last.op = "fast"
  /\ child = <<"&", "c", "&">> /\ parent = <<"$", "&">>
  /\ ret.value = <<"&", "c", "&">>

\* ----------------------------------------------------------------- C22
\* what the other of the two loops does at the cursor
OtherBody ==
  IF Top.fn = "parseCssNodes" THEN parseCssBlockBody(tokens, cursor)
  ELSE parseCssNodesBody(tokens, cursor, TRUE)

\* C22: parseCssBlock(cursor) and parseCssNodes(cursor, {stopAtBraceClose:
\* true}) are the same parser: at every position of every token list, the
\* iteration that the running one of the two makes (the branch taken, the
\* node produced, the index reached, the return or the nested call) is the
\* iteration of the other one, and both return at EOF, so that they return
\* the same nodes with the cursor at the same index.
C22_BlockIsNodesWithStop ==
  [][(Parsing /\ Top.stopAtBraceClose) =>
       IF isEof(tokens, cursor) THEN last'.op = "return" /\ cursor' = cursor
       ELSE /\ Body = OtherBody
            /\ last'.op = OtherBody.op
            /\ cursor' = OtherBody.index]_vars

\* parseCssBlock, called at the start of the tokens, has parsed a
\* declaration and is on the braceClose that ends it
C22_Witness ==
  /\ Parsing /\ Len(stack) = 1 /\ Top.fn = "parseCssBlock"
  /\ last.op = "declaration" /\ Len(Top.nodes) = 1
  /\ TypeAt(tokens, cursor) = "braceClose"

\* ----------------------------------------------------------------- C23
\* the character at index j of a string opened at index `open` is escaped:
\* it is right after a backslash of the string that is not escaped itself
RECURSIVE EscapedIn(_, _, _)
EscapedIn(src, open, j) ==
  j > open + 1 /\ src[j] = "\\" /\ ~EscapedIn(src, open, j - 1)

\* the index of the quote that closes the string opened at `open`, the
\* length of src when there is none
StringClose(src, open) ==
  CHOOSE j \in (open + 1)..Len(src) :
    /\ j = Len(src) \/ (src[j + 1] = src[open + 1] /\ ~EscapedIn(src, open, j))
    /\ \A k \in (open + 1)..(j - 1) :
         ~(src[k + 1] = src[open + 1] /\ ~EscapedIn(src, open, k))

\* C23: an iteration of tokenizeCss that starts on `"` or `'` emits exactly
\* one token, a string whose payload is every character after the opening
\* quote up to the first unescaped occurrence of the same quote, excluded,
\* or up to EOF; a backslash and the character after it are copied and that
\* character does not close the string; the other quote and the characters
\* { } : ; @ ( / are copied as content; the scan goes on after the closing
\* quote.
C23_QuotedString ==
  [][(pc = "tokenize" /\ ~charEof(Source, index) /\ peekChar(Source, index) \in {"\"", "'"}) =>
       /\ tokens' = Append(tokens, ValueToken("string",
                       Slice(Source, index + 1, StringClose(Source, index))))
       /\ index' = IF StringClose(Source, index) < Len(Source)
                   THEN StringClose(Source, index) + 1 ELSE Len(Source)]_vars

\* the string of `'\'` (quote, backslash, quote) has been read to EOF: the
\* escaped quote is content
C23_Witness ==
  /\ pc = "tokenize" /\ input = <<"'", "\\", "'">> /\ index = 3
  /\ tokens = <<ValueToken("string", <<"\\", "'">>)>>

\* ----------------------------------------------------------------- C24
\* the first index from i on that holds no white space
ScanPosition(src, i) ==
  CHOOSE j \in i..Len(src) :
    /\ j = Len(src) \/ src[j + 1] \notin Whitespace
    /\ \A k \in i..(j - 1) : src[k + 1] \in Whitespace

\* the index after the first newline from i on, the length of src when
\* there is none
AfterNewline(src, i) ==
  IF \E j \in i..(Len(src) - 1) : src[j + 1] = "\n"
  THEN 1 + CHOOSE j \in i..(Len(src) - 1) :
             src[j + 1] = "\n" /\ \A k \in i..(j - 1) : src[k + 1] # "\n"
  ELSE Len(src)

\* `*/` is at index j
ClosesAt(src, j) == j + 1 < Len(src) /\ src[j + 1] = "*" /\ src[j + 2] = "/"

Terminated(src, i) == \E j \in i..Len(src) : ClosesAt(src, j)

\* the index after the first `*/` from i on, the length of src when there
\* is none
AfterClose(src, i) ==
  IF Terminated(src, i)
  THEN 2 + CHOOSE j \in i..Len(src) :
             ClosesAt(src, j) /\ \A k \in i..(j - 1) : ~ClosesAt(src, k)
  ELSE Len(src)

StartsWith(src, i, c1, c2) == i + 1 < Len(src) /\ src[i + 1] = c1 /\ src[i + 2] = c2

\* C24: an iteration of tokenizeCss whose scan position is at `//` emits no
\* token and skips every character up to and including the next newline,
\* or up to EOF; at `/*` it emits no token and skips up to and including the
\* first `*/` that follows, or up to EOF when there is none, and the tokens
\* are then those of the text that precedes the comment.
C24_CommentsSkipped ==
  [][(pc = "tokenize" /\ ~charEof(Source, index)) =>
       LET p == ScanPosition(Source, index)
       IN /\ StartsWith(Source, p, "/", "/") =>
               tokens' = tokens /\ index' = AfterNewline(Source, p + 2)
          /\ StartsWith(Source, p, "/", "*") =>
               /\ tokens' = tokens /\ index' = AfterClose(Source, p + 2)
               /\ ~Terminated(Source, p + 2) =>
                    index' = Len(Source) /\ tokens' = tokenizeCss(Slice(Source, 0, p))]_vars

\* tokenizeCss has skipped the unterminated comment of `a/*/b`
C24_Witness ==
  /\ pc = "tokenize" /\ input = <<"a", "/", "*", "/", "b">> /\ index = 5
  /\ last.op = "tokenize" /\ last.from = 1
  /\ tokens = <<ValueToken("text", <<"a">>)>>

\* tokenizeCss has skipped the comment of `/**/a` and nothing more
C24_WitnessTerminated ==
  /\ pc = "tokenize" /\ input = <<"/", "*", "*", "/", "a">> /\ index = 4
  /\ last.op = "tokenize" /\ last.from = 0 /\ tokens = <<>>

\* ----------------------------------------------------------------- C25
BoundaryChars == {"{", "}", ":", ";", "@", "(", "\"", "'", "/"}

\* `a / b`
SlashSource == <<"a", " ", "/", " ", "b">>

\* C25: no text token holds one of the characters { } : ; @ ( " ' /; an
\* iteration of tokenizeCss whose scan position is at a `/` that opens no
\* comment emits no token and advances by one character; tokenizeCss of
\* `a / b` returns the text tokens `a` and `b`.
C25_BareSlash ==
  [][/\ \A k \in 1..Len(tokens') :
          tokens'[k].type = "text" =>
            \A c \in 1..Len(tokens'[k].value) : tokens'[k].value[c] \notin BoundaryChars
     /\ (pc = "tokenize" /\ ~charEof(Source, index)) =>
          LET p == ScanPosition(Source, index)
          IN (/\ p < Len(Source) /\ Source[p + 1] = "/"
              /\ ~StartsWith(Source, p, "/", "/") /\ ~StartsWith(Source, p, "/", "*"))
               => tokens' = tokens /\ index' = p + 1
     /\ (input = SlashSource /\ pc' = "returned") =>
          tokens' = <<ValueToken("text", <<"a">>), ValueToken("text", <<"b">>)>>]_vars

\* tokenizeCss of `a / b` has returned two text tokens
C25_Witness ==
  /\ input = SlashSource /\ pc = "returned"
  /\ tokens = <<ValueToken("text", <<"a">>), ValueToken("text", <<"b">>)>>

\* ----------------------------------------------------------------- C26
\* C26: on the tokens that tokenizeCss returns, readCssKeyOrSelector called
\* at any position returns the empty string only at EOF or on a braceOpen,
\* braceClose, semicolon or at token, and then leaves the cursor where it
\* was; the recovery step of parseCssNodes and parseCssBlock that follows
\* an empty result therefore skips exactly one token.
C26_EmptyKeyKeepsCursor ==
  (pc \in {"parse", "ast"} /\ pass \in {1, 2}) =>
    /\ \A i \in 0..Len(tokens) :
         readCssKeyOrSelector(tokens, i).value = <<>> =>
           /\ readCssKeyOrSelector(tokens, i).index = i
           /\ TypeAt(tokens, i) \in {"undefined", "braceOpen", "braceClose", "semicolon", "at"}
    /\ (pc = "parse" /\ last.op = "recover") =>
         /\ readCssKeyOrSelector(tokens, last.from).value = <<>>
         /\ cursor = last.from + 1

\* in the block of `@{}` the recovery step has skipped the braceOpen, on
\* which readCssKeyOrSelector returned the empty string
C26_Witness ==
  /\ pass = 1 /\ pc = "parse" /\ last.op = "recover" /\ input = <<"@", "{", "}">>
  /\ last.from = 1 /\ cursor = 2 /\ Len(stack) = 2
  /\ readCssKeyOrSelector(tokens, 1) = [value |-> <<>>, index |-> 1]

\* ----------------------------------------------------------------- C27
\* index of the first token from i on that is a semicolon, a braceOpen or
\* a braceClose, Len(toks) when there is none
RECURSIVE HeaderLimit(_, _)
HeaderLimit(toks, i) ==
  IF isEof(toks, i) \/ toks[i + 1].type \in {"semicolon", "braceOpen", "braceClose"} THEN i
  ELSE HeaderLimit(toks, i + 1)

\* C27: parseCssAtRule consumes no braceClose: of the tokens it has read,
\* from the `@` on, none is a braceClose; and when the header meets a
\* braceClose before any `;` or `{` the at-rule is a directive and the
\* cursor is left on that braceClose.
C27_HeaderStopsAtBraceClose ==
  (pc = "parse" /\ last.op \in {"atRule", "atRuleBlock"}) =>
    /\ \A j \in last.from..(cursor - 1) : TypeAt(tokens, j) # "braceClose"
    /\ TypeAt(tokens, HeaderLimit(tokens, last.from + 1)) = "braceClose" =>
         last.op = "atRule" /\ cursor = HeaderLimit(tokens, last.from + 1)

\* ----------------------------------------------------------------- C28
\* C28: after a cursor.expect that failed on a token of another type the
\* index is exactly one greater than before the call, the offending token
\* being consumed; after one that failed at EOF the index is unchanged;
\* and the index never exceeds the number of tokens.
C28_FailedExpect ==
  /\ cursor <= Len(tokens)
  /\ (pc = "cursor" /\ last.op = "expect" /\ threw # <<>>) =>
       IF last.from >= Len(tokens)
       THEN cursor = last.from /\ \E type \in last.arg : threw = EofMessage(type)
       ELSE /\ cursor = last.from + 1
            /\ \E type \in last.arg :
                 /\ tokens[last.from + 1].type # type
                 /\ threw = MismatchMessage(type, tokens[last.from + 1].type)

\* expect('braceOpen') failed on the text token that starts `color: red}`
\* and left the cursor after it
C28_Witness ==
  /\ pc = "cursor" /\ last.op = "expect" /\ last.arg = {"braceOpen"} /\ last.from = 0
  /\ input = ColorRedSource /\ cursor = 1
  /\ threw = MismatchMessage("braceOpen", "text")

\* expect failed at the end of the tokens and left the cursor there
C28_WitnessEof ==
  /\ pc = "cursor" /\ last.op = "expect" /\ last.from = Len(tokens) /\ cursor = Len(tokens)
  /\ Len(tokens) > 0 /\ \E type \in last.arg : threw = EofMessage(type)

\* ----------------------------------------------------------------- C30
\* C30: whenever parseCssRule or parseCssAtRule has just called
\* parseCssBlock, the token before the cursor is the braceOpen that opens
\* the block, consumed by the caller.
C30_BlockAfterBraceOpen ==
  (pc = "parse" /\ last.op \in {"rule", "atRuleBlock"}) =>
    /\ Top.fn = "parseCssBlock" /\ Top.nodes = <<>>
    /\ cursor >= 1 /\ TypeAt(tokens, cursor - 1) = "braceOpen"

\* ----------------------------------------------------------------- C29
RECURSIVE ShapeOK(_)
ShapeOK(body) ==
  IF body = <<>> THEN TRUE
  ELSE LET node == Head(body) IN
       /\ IF node.type = "rule"
            THEN /\ node.selector # <<>> /\ Trim(node.selector) = node.selector
                 /\ node.body # Null /\ ShapeOK(node.body)
          ELSE IF node.type = "declaration"
            THEN /\ node.prop # <<>> /\ Trim(node.prop) = node.prop
                 /\ Trim(node.value) = node.value
          ELSE node.type = "atRule" /\ (node.body = Null \/ ShapeOK(node.body))
       /\ ShapeOK(Tail(body))

\* the body of frame k has got one more node at its end, whose first token
\* is at `start`, before the cursor after the step
AppendedAt(k, start) ==
  /\ Len(stack'[k].nodes) = Len(stack[k].nodes) + 1
  /\ SubSeq(stack'[k].nodes, 1, Len(stack[k].nodes)) = stack[k].nodes
  /\ stack[k].from <= start /\ start < cursor'

\* C29: in the AST of parseCss every rule has a non-empty trimmed selector
\* and an array as body, every declaration a non-empty trimmed prop and a
\* trimmed value, and the nodes of every body are in the order of their
\* first tokens: the cursor never moves back from one step of the parser
\* to the next, a body only grows at its end, by a node that starts at the
\* cursor of the iteration (or of the call of parseCssBlock) that made it,
\* and the cursor has passed that token when the node is appended.
C29_ShapeAndOrder ==
  [][(pc = "parse" /\ stack # <<>>) =>
       /\ cursor' >= cursor
       /\ \A k \in 1..Len(stack') :
            /\ ShapeOK(stack'[k].nodes)
            /\ stack'[k].from <= cursor'
            /\ k > Len(stack) => (k = Len(stack) + 1 /\ stack'[k].from = cursor
                                    /\ stack'[k].nodes = <<>>)
            /\ k <= Len(stack) =>
                 \/ stack'[k].nodes = stack[k].nodes
                 \/ k = Len(stack') /\ k = Len(stack) /\ AppendedAt(k, cursor)
                 \/ k = Len(stack') /\ k = Len(stack) - 1 /\ AppendedAt(k, Top.from)
       /\ pc' = "ast" => (ast' = Top.nodes /\ ShapeOK(ast'))]_vars

\* `a:;a{`, parsed into the declaration `a` with the empty value followed
\* by the rule `a`
C29_Witness ==
  /\ pc = "ast" /\ pass = 1 /\ input = <<"a", ":", ";", "a", "{">>
  /\ ast = <<[type |-> "declaration", prop |-> <<"a">>, value |-> <<>>],
             [type |-> "rule", selector |-> <<"a">>, body |-> <<>>]>>
  /\ ShapeOK(ast)

\* ` a{a:`, parsed into the rule `a` that holds the declaration `a`
C29_WitnessNested ==
  /\ pc = "ast" /\ pass = 1 /\ input = <<" ", "a", "{", "a", ":">>
  /\ ast = <<[type |-> "rule", selector |-> <<"a">>,
              body |-> <<[type |-> "declaration", prop |-> <<"a">>, value |-> <<>>]>>]>>

TypeOK ==
  pc \in {"tokenize", "returned", "parse", "build", "ast", "stringified", "threw", "cursor",
         "resolve", "resolved"}

====
